---- MODULE Spec2Model ----
(***************************************************************************)
(* The websocket client of blocknative-rs (src/src/ws/ws.rs): the Ws       *)
(* handle, the keepalive task spawned by Ws::new, the WsServer actor that  *)
(* owns the socket, and the subscribers that hold NotificationStreams.     *)
(***************************************************************************)
EXTENDS Integers, Sequences, FiniteSets, TLC

\* ---------------------------------------------------------------- bounds
MaxHandles == 2
MaxRequests == 2
MaxChans == 2
MaxInbound == 2
MaxQueue == 3
MaxPings == 2

\* ------------------------------------------------------ program constants
PingInterval == 60
ListenId == 1
RouteId == 1

Handles == 1..MaxHandles
Chans == 1..MaxChans
UnsubIds == {ListenId, ListenId + 1}
Durations == {PingInterval \div 2, PingInterval}
Payloads == {<<>>, <<7>>}

VARIABLES
    handles,            \* live clones of the Ws handle
    created,            \* number of Ws values made so far (new + clones)
    reqSeq,             \* number of request envelopes built so far
    instructions,       \* the mpsc queue of Instruction values
    rxOpen,             \* the queue's receiver (owned by WsServer) exists
    instructions_done,  \* Fuse flag of WsServer.instructions
    tickerState,        \* keepalive task: "running" or "panicked"
    sleepLeft,          \* time the keepalive task still sleeps
    sincePing,          \* time since the last Ping was enqueued (saturating)
    pingFails,          \* failed enqueue attempts of the keepalive task
    subscriptions,      \* WsServer.subscriptions: id -> channel
    pending,            \* WsServer.pending
    exit,               \* how the spawned loop ended, or "running"
    last,               \* set by a step of the loop, cleared by any other step:
                        \* the event tick() processed, what it returned, and
                        \* whether it left anything in registry and queue
    nextChan,           \* number of delivery channels created so far
    rx,                 \* per channel: its receiving end: "none", "local" (in listen),
                        \* "open", "ended" (None observed) or "dropped"
    delivered,          \* per channel: every Response sent into it
    arrived,            \* inbound frames counted so far (arrival index)
    wrote,              \* the frame the last step wrote to the socket, if any
    ret                 \* what the last step, a call of Ws::cast, returned to its
                        \* caller; "none" after any other step

clientVars == <<handles, created, reqSeq>>
tickerVars == <<tickerState, sleepLeft, sincePing, pingFails>>
actorVars == <<subscriptions, pending, exit, instructions_done, rxOpen>>
chanVars == <<nextChan, rx, delivered>>
vars == <<clientVars, tickerVars, actorVars, chanVars, instructions, arrived,
          last, wrote, ret>>

Min(a, b) == IF a < b THEN a ELSE b
Max(a, b) == IF a > b THEN a ELSE b

NoMap == [k \in {} |-> 0]
NoInput == [src |-> "none", kind |-> "none", data |-> 0]
NoFrame == [kind |-> "none", body |-> 0]
NoStep == [result |-> "Ok", input |-> NoInput, subs |-> FALSE, queued |-> FALSE]

\* ----------------------------------------------------------- Instruction
Ping == [type |-> "Ping"]
Request(r) == [type |-> "Request", request |-> r]
Subscribe(id, sink) == [type |-> "Subscribe", id |-> id, sink |-> sink]
Unsubscribe(id) == [type |-> "Unsubscribe", id |-> id]

\* Request::new + serde_json::to_string: the envelope, told apart by its
\* builder, its number and its categoryCode.
Envelope(h, n, method) == [from |-> h, n |-> n, method |-> method]

\* ------------------------------------------------------------- channels
\* Mutant: a channel's sender, once made, is never dropped.
SenderAlive_never_dropped(c) == c <= nextChan

\* A delivery channel's sender exists while the registry or a queued
\* Subscribe holds it.
SenderAlive(c) ==
    \/ \E k \in DOMAIN subscriptions : subscriptions[k] = c
    \/ \E i \in DOMAIN instructions :
          /\ instructions[i].type = "Subscribe"
          /\ instructions[i].sink = c

\* Mutant: the keepalive task holds no sender.
QueueSenders_handles_only == Cardinality(handles)

\* Senders of the instruction queue: every live Ws and the keepalive task.
QueueSenders == Cardinality(handles) + (IF tickerState = "running" THEN 1 ELSE 0)

\* Ws::ready
ready(h) == rxOpen

Init ==
    /\ handles = {1}
    /\ created = 1
    /\ reqSeq = 0
    /\ instructions = <<>>
    /\ rxOpen = TRUE
    /\ instructions_done = FALSE
    /\ tickerState = "running"
    /\ sleepLeft = 0
    /\ sincePing = PingInterval
    /\ pingFails = 0
    /\ subscriptions = NoMap
    /\ pending = <<>>
    /\ exit = "running"
    /\ last = NoStep
    /\ nextChan = 0
    /\ rx = [c \in Chans |-> "none"]
    /\ delivered = [c \in Chans |-> <<>>]
    /\ arrived = 0
    /\ wrote = NoFrame
    /\ ret = "none"

\* ------------------------------------------------------------ Ws (client)
\* #[derive(Clone)] on Ws
Clone(h) ==
    /\ last' = NoStep
    /\ wrote' = NoFrame
    /\ ret' = "none"
    /\ h \in handles
    /\ created < MaxHandles
    /\ handles' = handles \cup {created + 1}
    /\ created' = created + 1
    /\ UNCHANGED <<reqSeq, instructions, tickerVars, actorVars,
                   chanVars, arrived>>

\* A Ws goes out of scope: its sender of the queue is dropped.
DropHandle(h) ==
    /\ last' = NoStep
    /\ wrote' = NoFrame
    /\ ret' = "none"
    /\ h \in handles
    /\ handles' = handles \ {h}
    /\ UNCHANGED <<created, reqSeq, instructions, tickerVars,
                   actorVars, chanVars, arrived>>

\* Mutant: msg is queued whether or not the receiver exists.
send_always(q, msg) == Append(q, msg)

\* Ws::send: unbounded_send puts msg on queue q, or fails once the receiver
\* is gone.
send(q, msg) == IF rxOpen THEN Append(q, msg) ELSE q

\* What Ws::send returns: Ok, or the failed unbounded_send as a ClientError.
send_result == IF rxOpen THEN "Ok" ELSE "ChannelError"

\* Ws::cast: builds the envelope and sends it as a Request.
cast(q, h, n, method) == send(q, Request(Envelope(h, n, method)))

\* Ws::cast as called by Ws::connect ("initialize") or by any other caller:
\* Err is returned when the queue is closed, and nothing is enqueued.
Cast(h) ==
    /\ last' = NoStep
    /\ wrote' = NoFrame
    /\ ret' = send_result
    /\ h \in handles
    /\ reqSeq < MaxRequests
    /\ Len(instructions) < MaxQueue
    /\ reqSeq' = reqSeq + 1
    /\ instructions' = cast(instructions, h, reqSeq + 1, "initialize")
    /\ UNCHANGED <<handles, created, tickerVars, actorVars, chanVars, arrived>>

\* Mutant: the Subscribe is sent ahead of the "configs" envelope.
listen_subscribe_first(q, h, n, c) ==
    cast(send(q, Subscribe(ListenId, c)), h, n, "configs")

\* Mutant: each call subscribes under an id of its own, the channel's number.
listen_own_id(q, h, n, c) == send(cast(q, h, n, "configs"), Subscribe(c, c))

\* The two sends of Ws::listen, in program order: the "configs" envelope,
\* then Subscribe { id: 1, sink } for channel c.
listen(q, h, n, c) == send(cast(q, h, n, "configs"), Subscribe(ListenId, c))

\* Ws::listen: makes the channel, casts the "configs" envelope (a failed cast
\* is unwrapped and panics the caller), sends Subscribe { id: 1, sink } and
\* returns the stream. With the queue closed both ends of the channel are
\* dropped.
Listen(h) ==
    /\ last' = NoStep
    /\ wrote' = NoFrame
    /\ ret' = "none"
    /\ h \in handles
    /\ reqSeq < MaxRequests
    /\ nextChan < MaxChans
    /\ Len(instructions) + 2 <= MaxQueue
    /\ reqSeq' = reqSeq + 1
    /\ nextChan' = nextChan + 1
    /\ instructions' = listen(instructions, h, reqSeq + 1, nextChan + 1)
    /\ rx' = [rx EXCEPT ![nextChan + 1] = IF rxOpen THEN "open" ELSE "dropped"]
    /\ UNCHANGED <<handles, created, tickerVars, actorVars, delivered, arrived>>

\* Ws::unsubscribe: casts the "unwatch" envelope (unwrapped), then sends
\* Unsubscribe { id }.
UnsubscribeCall(h, id) ==
    /\ last' = NoStep
    /\ wrote' = NoFrame
    /\ ret' = "none"
    /\ h \in handles
    /\ reqSeq < MaxRequests
    /\ Len(instructions) + 2 <= MaxQueue
    /\ reqSeq' = reqSeq + 1
    /\ instructions' = send(cast(instructions, h, reqSeq + 1, "activeTransaction"),
                            Unsubscribe(id))
    /\ UNCHANGED <<handles, created, tickerVars, actorVars, chanVars, arrived>>

\* -------------------------------------------------------- keepalive task
\* Mutant: the failed send is ignored and the task loops on.
AfterFailedPing_retry == "running"

\* What the task does after a failed send: unwrap() panics, the task ends.
AfterFailedPing == "panicked"

\* One iteration of the loop in Ws::new: send Ping, unwrap, sleep 60 s.
TickerSend ==
    /\ last' = NoStep
    /\ wrote' = NoFrame
    /\ ret' = "none"
    /\ tickerState = "running"
    /\ sleepLeft = 0
    /\ Len(instructions) < MaxQueue
    /\ pingFails < MaxPings
    /\ instructions' = send(instructions, Ping)
    /\ IF rxOpen
       THEN /\ sleepLeft' = PingInterval
            /\ sincePing' = 0
            /\ UNCHANGED <<tickerState, pingFails>>
       ELSE /\ tickerState' = AfterFailedPing
            /\ pingFails' = pingFails + 1
            /\ UNCHANGED <<sleepLeft, sincePing>>
    /\ UNCHANGED <<clientVars, actorVars, chanVars, arrived>>

\* Time passes.
Elapse(d) ==
    /\ last' = NoStep
    /\ wrote' = NoFrame
    /\ ret' = "none"
    /\ sleepLeft' = Max(0, sleepLeft - d)
    /\ sincePing' = Min(PingInterval, sincePing + d)
    /\ UNCHANGED <<tickerState, pingFails, clientVars, actorVars,
                   chanVars, arrived, instructions>>

\* ------------------------------------------------------------ subscribers
\* NotificationStream::next until it yields None: the subscriber takes the
\* items sent into the channel and, once every sender is gone, sees its end.
StreamEnd(c) ==
    /\ last' = NoStep
    /\ wrote' = NoFrame
    /\ ret' = "none"
    /\ rx[c] = "open"
    /\ ~SenderAlive(c)
    /\ rx' = [rx EXCEPT ![c] = "ended"]
    /\ UNCHANGED <<clientVars, tickerVars, actorVars, nextChan, delivered, arrived, instructions>>

\* Mutant: dropping the stream also takes its entry out of the registry.
DropReceiver_eager(c) ==
    /\ last' = NoStep
    /\ wrote' = NoFrame
    /\ ret' = "none"
    /\ rx[c] = "open"
    /\ rx' = [rx EXCEPT ![c] = "dropped"]
    /\ subscriptions' = [k \in {i \in DOMAIN subscriptions : subscriptions[i] # c}
                            |-> subscriptions[k]]
    /\ UNCHANGED <<clientVars, tickerVars, pending, exit, instructions_done,
                   rxOpen, nextChan, delivered, arrived, instructions>>

\* The subscriber drops its NotificationStream.
DropReceiver(c) ==
    /\ last' = NoStep
    /\ wrote' = NoFrame
    /\ ret' = "none"
    /\ rx[c] = "open"
    /\ rx' = [rx EXCEPT ![c] = "dropped"]
    /\ UNCHANGED <<clientVars, tickerVars, actorVars, nextChan, delivered, arrived, instructions>>

\* --------------------------------------------------------------- WsServer
\* Inbound text, by the JSON fields that decide how serde reads it: `common`
\* (version, serverVersion, status, connectionId all well-typed), showUX,
\* timeStamp, and raw ("absent", "null" or "string").
AllFrames ==
    [common : BOOLEAN, showUX : BOOLEAN, timeStamp : BOOLEAN,
     raw : {"absent", "null", "string"}]

\* One frame of each shape that serde tells apart: text without the common
\* fields, the four mixes of showUX and timeStamp, and a notification whose
\* raw is null or a string.
TextFrames ==
    {t \in AllFrames :
        /\ ~t.common => (~t.showUX /\ ~t.timeStamp)
        /\ t.raw # "absent" => (t.common /\ t.timeStamp /\ ~t.showUX)}

\* serde_json::from_str::<Incoming>: untagged, so HelloMsg is tried first and
\* Response second; unknown fields are ignored.
from_str(t) ==
    IF t.common /\ t.showUX THEN "HelloMsg"
    ELSE IF t.common /\ t.timeStamp THEN "Response"
    ELSE "Err"

\* Response.raw: Option<String>; a missing field and null both read as None.
raw_of(t) == IF t.raw = "string" THEN "Some" ELSE "None"

\* The Response handed to a subscriber, tagged with its arrival index.
Response(t, n) == [seq |-> n, raw |-> raw_of(t)]

\* Mutant: an occupied key keeps its old value.
insert_keep_old(m, id, c) ==
    [k \in DOMAIN m \cup {id} |-> IF k \in DOMAIN m THEN m[k] ELSE c]

\* BTreeMap::insert
insert(m, id, c) == [k \in DOMAIN m \cup {id} |-> IF k = id THEN c ELSE m[k]]

\* Mutant: nothing is removed.
remove_nothing(m, id) == m

\* Mutant: every entry is removed.
remove_everything(m, id) == NoMap

\* BTreeMap::remove
remove(m, id) == [k \in DOMAIN m \ {id} |-> m[k]]

\* Vec::pop
pop(v) == IF v = <<>> THEN v ELSE SubSeq(v, 1, Len(v) - 1)

\* WsServer::is_done
is_done(done, pend, subs) == done /\ pend = <<>> /\ DOMAIN subs = {}

\* Mutant: UnexpectedClose is treated like Ok.
spawn_match_continue(res) ==
    IF res \in {"Ok", "UnexpectedClose"} THEN "running" ELSE "panic"

\* The match on tick()'s result in WsServer::spawn.
spawn_match(res) ==
    CASE res = "Ok" -> "running"
      [] res = "UnexpectedClose" -> "unexpected_close"
      [] OTHER -> "panic"

\* Mutant: the registry outlives the loop.
registry_after_exit_kept(subs) == subs

\* What is left of the registry once the spawned future has ended: the
\* WsServer is dropped, and with it every Subscription it holds.
registry_after_exit(subs) == NoMap

\* Mutant: the receiver outlives the loop.
receiver_after_exit_kept == TRUE

\* The queue's receiver once the spawned future has ended: dropped.
receiver_after_exit == FALSE

\* One iteration of the loop in WsServer::spawn, given what tick() did:
\* its result and the queue, registry and pending table it left. The
\* is_done() check of the next iteration is taken with it. `polled` says
\* that the tick found the instruction stream exhausted.
spawn(res, instr2, subs2, pend2, input, polled) ==
    LET done2 == instructions_done \/ polled
        ex == IF res # "Ok" THEN spawn_match(res)
              ELSE IF is_done(done2, pend2, subs2) THEN "work_complete"
              ELSE "running"
    IN  /\ exit' = ex
        /\ instructions_done' = done2
        /\ ret' = "none"
        /\ last' = [result |-> res, input |-> input,
                     subs |-> DOMAIN subs2 # {}, queued |-> instr2 # <<>>]
        /\ IF ex = "running"
           THEN /\ instructions' = instr2
                /\ subscriptions' = subs2
                /\ pending' = pend2
                /\ rxOpen' = rxOpen
           ELSE /\ instructions' = <<>>
                /\ subscriptions' = registry_after_exit(subs2)
                /\ pending' = <<>>
                /\ rxOpen' = receiver_after_exit

\* Mutant: the newest queued item is taken first.
select_next_some_lifo(q) == [item |-> q[Len(q)], rest |-> SubSeq(q, 1, Len(q) - 1)]

\* select_next_some() on the instruction stream: the oldest queued item,
\* and the queue without it.
select_next_some(q) == [item |-> Head(q), rest |-> Tail(q)]

Taken == select_next_some(instructions).item
Rest == select_next_some(instructions).rest

\* The instruction branch of tick()'s select! is ready.
InstructionReady(type) ==
    /\ exit = "running"
    /\ instructions # <<>>
    /\ Taken.type = type

\* The socket branch of tick()'s select! is ready. The poll of the other
\* branch finds the instruction stream exhausted when the queue is empty and
\* no sender is left.
SocketReady == exit = "running"
Exhausted == instructions = <<>> /\ QueueSenders = 0

\* The kind of event a tick() took: an Instruction or a socket item.
FromQueue == [src |-> "queue", kind |-> Taken.type, data |-> Taken]
FromSocket(kind, data) == [src |-> "socket", kind |-> kind, data |-> data]

\* WsServer::service_ping
service_ping(ok) == IF ok THEN "Ok" ELSE "TungsteniteError"

ServicePing ==
    /\ InstructionReady("Ping")
    /\ \E ok \in BOOLEAN :
          /\ wrote' = IF ok THEN [kind |-> "Ping", body |-> <<>>] ELSE NoFrame
          /\ spawn(service_ping(ok), Rest, subscriptions, pending,
                   FromQueue, FALSE)
    /\ UNCHANGED <<clientVars, tickerVars, chanVars, arrived>>

\* Mutant: a failed write is returned as an error.
service_request_strict(ok) == IF ok THEN "Ok" ELSE "TungsteniteError"

\* What WsServer::service_request returns, the write having succeeded or not.
service_request(ok) == "Ok"

\* WsServer::service_request: a failed write is logged, pending is popped,
\* and Ok is returned either way.
ServiceRequest ==
    /\ InstructionReady("Request")
    /\ \E ok \in BOOLEAN :
          /\ wrote' = IF ok THEN [kind |-> "Text", body |-> Taken.request]
                      ELSE NoFrame
          /\ spawn(service_request(ok), Rest, subscriptions,
                   IF ok THEN pending ELSE pop(pending), FromQueue, FALSE)
    /\ UNCHANGED <<clientVars, tickerVars, chanVars, arrived>>

\* WsServer::service_subscribe
ServiceSubscribe ==
    /\ InstructionReady("Subscribe")
    /\ spawn("Ok", Rest,
             insert(subscriptions, Taken.id, Taken.sink),
             pending, FromQueue, FALSE)
    /\ wrote' = NoFrame
    /\ UNCHANGED <<clientVars, tickerVars, chanVars, arrived>>

\* WsServer::service_unsubscribe
ServiceUnsubscribe ==
    /\ InstructionReady("Unsubscribe")
    /\ spawn("Ok", Rest,
             remove(subscriptions, Taken.id), pending, FromQueue, FALSE)
    /\ wrote' = NoFrame
    /\ UNCHANGED <<clientVars, tickerVars, chanVars, arrived>>

\* UnboundedSender::unbounded_send on a delivery channel: an error, with
\* is_disconnected(), once the receiving end has been dropped.
Disconnected(c) == rx[c] = "dropped"

\* Mutant: resp is put ahead of what c holds.
unbounded_send_front(d, c, resp) == [d EXCEPT ![c] = <<resp>> \o @]

\* unbounded_send(resp) on channel c: resp is queued behind what c holds.
unbounded_send(d, c, resp) == [d EXCEPT ![c] = Append(@, resp)]

\* Mutant: what the text parsed as is not looked at.
Routable_any_text(t) == raw_of(t) = "None"

\* Mutant: raw is not looked at.
Routable_any_raw(t) == from_str(t) = "Response"

\* Whether handle_text routes the parsed text to the registry at all.
Routable(t) == from_str(t) = "Response" /\ raw_of(t) = "None"

\* The result of handle_text when the send fails.
undelivered_result == "ChannelError"

\* Mutant: a Response nobody is registered for is an error.
vacant_result_error == "ChannelError"

\* The result of handle_text for a Response with raw absent when the entry
\* for the routed id is vacant: the `if let` does not match, Ok(()) follows.
vacant_result == "Ok"

\* WsServer::handle_text
HandleText(t) ==
    /\ SocketReady
    /\ arrived < MaxInbound
    /\ arrived' = arrived + 1
    /\ LET n == arrived + 1
           input == FromSocket("Text", [class |-> from_str(t), raw |-> raw_of(t)])
       IN IF Routable(t) /\ RouteId \in DOMAIN subscriptions
          THEN LET c == subscriptions[RouteId]
               IN IF Disconnected(c)
                  THEN /\ delivered' = delivered
                       /\ spawn(undelivered_result, instructions,
                                remove(subscriptions, RouteId), pending,
                                input, Exhausted)
                  ELSE /\ delivered' = unbounded_send(delivered, c, Response(t, n))
                       /\ spawn("Ok", instructions, subscriptions, pending,
                                input, Exhausted)
          ELSE /\ delivered' = delivered
               /\ spawn(IF Routable(t) THEN vacant_result ELSE "Ok",
                        instructions, subscriptions, pending, input,
                        Exhausted)
    /\ wrote' = NoFrame
    /\ UNCHANGED <<clientVars, tickerVars, nextChan, rx>>

\* Mutant: the pong carries no payload.
Pong_empty(p) == [kind |-> "Pong", body |-> <<>>]

\* Message::Pong(inner), the frame handle_ping writes for a ping carrying p.
Pong(p) == [kind |-> "Pong", body |-> p]

\* WsServer::handle_ping: the pong echoes the payload; a failed write is an
\* error of tick().
HandlePing(p) ==
    /\ SocketReady
    /\ arrived < MaxInbound
    /\ arrived' = arrived + 1
    /\ \E ok \in BOOLEAN :
          /\ wrote' = IF ok THEN Pong(p) ELSE NoFrame
          /\ spawn(IF ok THEN "Ok" ELSE "TungsteniteError", instructions,
                   subscriptions, pending, FromSocket("Ping", p),
                   Exhausted)
    /\ UNCHANGED <<clientVars, tickerVars, chanVars>>

\* WsServer::handle, Message::Pong
HandlePong ==
    /\ SocketReady
    /\ spawn("Ok", instructions, subscriptions, pending,
             FromSocket("Pong", 0), Exhausted)
    /\ wrote' = NoFrame
    /\ UNCHANGED <<clientVars, tickerVars, chanVars, arrived>>

\* WsServer::handle, Message::Close
handle_close(info) == IF info THEN "WsClosed" ELSE "UnexpectedClose"

HandleClose(info) ==
    /\ SocketReady
    /\ spawn(handle_close(info), instructions, subscriptions, pending,
             FromSocket("Close", info), Exhausted)
    /\ wrote' = NoFrame
    /\ UNCHANGED <<clientVars, tickerVars, chanVars, arrived>>

\* WsServer::handle, Message::Binary
HandleBinary ==
    /\ SocketReady
    /\ spawn("UnexpectedBinary", instructions, subscriptions, pending,
             FromSocket("Binary", 0), Exhausted)
    /\ wrote' = NoFrame
    /\ UNCHANGED <<clientVars, tickerVars, chanVars, arrived>>

\* tick(), Some(Err(_)) from the socket: nothing is done with it.
read_error_result == "Ok"

WsReadError ==
    /\ SocketReady
    /\ spawn(read_error_result, instructions, subscriptions, pending,
             FromSocket("ReadError", 0), Exhausted)
    /\ wrote' = NoFrame
    /\ UNCHANGED <<clientVars, tickerVars, chanVars, arrived>>

\* tick(), None from the socket: the stream is exhausted.
stream_end_result == "UnexpectedClose"

WsStreamEnd ==
    /\ SocketReady
    /\ spawn(stream_end_result, instructions, subscriptions, pending,
             FromSocket("StreamEnd", 0), Exhausted)
    /\ wrote' = NoFrame
    /\ UNCHANGED <<clientVars, tickerVars, chanVars, arrived>>

\* ------------------------------------------------------------------ system
Service == ServicePing \/ ServiceRequest \/ ServiceSubscribe \/ ServiceUnsubscribe

Next ==
    \/ \E h \in Handles : Clone(h)
    \/ \E h \in Handles : DropHandle(h)
    \/ \E h \in Handles : Cast(h)
    \/ \E h \in Handles : Listen(h)
    \/ \E h \in Handles, id \in UnsubIds : UnsubscribeCall(h, id)
    \/ TickerSend
    \/ \E d \in Durations : Elapse(d)
    \/ \E c \in Chans : StreamEnd(c)
    \/ \E c \in Chans : DropReceiver(c)
    \/ ServicePing
    \/ ServiceRequest
    \/ ServiceSubscribe
    \/ ServiceUnsubscribe
    \/ \E t \in TextFrames : HandleText(t)
    \/ \E p \in Payloads : HandlePing(p)
    \/ HandlePong
    \/ \E info \in BOOLEAN : HandleClose(info)
    \/ HandleBinary
    \/ WsReadError
    \/ WsStreamEnd

Spec == Init /\ [][Next]_vars

\* The tokio runtime keeps polling the spawned tasks: a queued instruction is
\* eventually serviced, the keepalive task eventually runs, time passes.
FairSpec ==
    /\ Spec
    /\ WF_vars(Service)
    /\ WF_vars(TickerSend)
    /\ WF_vars(Elapse(PingInterval))

\* ================================================================== claims
\* The step taken is one of the loop, on a text frame that serde reads as a
\* Response with the given raw.
TextStep(raw) ==
    /\ last'.input.src = "socket"
    /\ last'.input.kind = "Text"
    /\ last'.input.data.class = "Response"
    /\ last'.input.data.raw = raw

\* A step of the loop that handles a raw-absent Notification while the entry
\* it is routed to has a dropped receiving end.
DeadDelivery ==
    /\ TextStep("None")
    /\ RouteId \in DOMAIN subscriptions
    /\ Disconnected(subscriptions[RouteId])

\* A step of the loop that handles a raw-absent Notification while the entry
\* it is routed to has a live receiving end.
LiveDelivery ==
    /\ TextStep("None")
    /\ RouteId \in DOMAIN subscriptions
    /\ ~Disconnected(subscriptions[RouteId])

\* C1: when a raw-absent Notification arrives for a subscription whose
\* receiving end was dropped, the actor removes the registry entry and keeps
\* running (no panic). This is the claim as stated; the code panics.
C1_DeadSubscriberKeepsRunning ==
    [][DeadDelivery => (exit' = "running" /\ RouteId \notin DOMAIN subscriptions')]_vars

\* C1, the code's behaviour: the failed send is returned from tick() as a
\* ChannelError and the loop panics on it.
C1_Witness ==
    /\ last.input.src = "socket"
    /\ last.input.kind = "Text"
    /\ last.result = undelivered_result
    /\ exit = "panic"

\* C2: a close frame with close info ends the loop with a graceful-close
\* condition (the loop stops, and not by a panic), and every delivery channel
\* loses its sender. This is the claim as stated; the code panics.
C2_CloseWithInfoIsGraceful ==
    [][(last'.input.kind = "Close" /\ last'.input.data = TRUE) =>
         /\ exit' \notin {"running", "panic"}
         /\ \A c \in Chans : ~SenderAlive(c)']_vars

\* C2, the code's behaviour: WsClosed is not UnexpectedClose, so the loop
\* panics on it.
C2_Witness ==
    /\ last.input.src = "socket"
    /\ last.input.kind = "Close"
    /\ last.input.data = TRUE
    /\ last.result = "WsClosed"
    /\ exit = "panic"

\* Every channel holds its Responses in arrival order, none twice.
C3_InOrder ==
    \A c \in Chans : \A i, j \in DOMAIN delivered[c] :
        i < j => delivered[c][i].seq < delivered[c][j].seq

\* No Response is held by two channels.
C3_ExactlyOne ==
    \A c, e \in Chans : \A i \in DOMAIN delivered[c] : \A j \in DOMAIN delivered[e] :
        delivered[c][i].seq = delivered[e][j].seq => c = e

\* C3: a raw-absent Notification that arrives while a subscriber is registered
\* (and listening) for the routed id is appended to that subscriber's channel
\* and to no other; every channel holds its Responses in arrival order, none
\* twice, and no Response is held by two channels.
C3_RoutedInOrder ==
    /\ [](C3_InOrder /\ C3_ExactlyOne)
    /\ [][LiveDelivery =>
            delivered' = [delivered EXCEPT ![subscriptions[RouteId]] =
                            Append(@, [seq |-> arrived + 1, raw |-> "None"])]]_vars

\* C3: a second Notification has been delivered to the registered channel.
C3_Witness ==
    \E c \in Chans :
        /\ Len(delivered[c]) >= 2
        /\ RouteId \in DOMAIN subscriptions
        /\ subscriptions[RouteId] = c
        /\ last.input.kind = "Text"

\* The last step handled a Notification whose raw is present.
C4_RawHandled ==
    /\ last.input.src = "socket"
    /\ last.input.kind = "Text"
    /\ last.input.data.class = "Response"
    /\ last.input.data.raw = "Some"

\* C4: no delivery channel ever holds a Notification whose raw is present;
\* handling one changes neither the registry nor any channel, and tick()
\* returns Ok.
C4_RawNeverDelivered ==
    /\ [](\A c \in Chans : \A i \in DOMAIN delivered[c] : delivered[c][i].raw = "None")
    /\ [](C4_RawHandled => (last.result = "Ok" /\ exit = "running"))
    /\ [][C4_RawHandled' => UNCHANGED <<subscriptions, delivered>>]_vars

\* C4: a Notification with raw present was handled while a listening
\* subscriber was registered for the routed id.
C4_Witness ==
    /\ C4_RawHandled
    /\ RouteId \in DOMAIN subscriptions
    /\ rx[subscriptions[RouteId]] = "open"

QueuedRequests == {i \in DOMAIN instructions : instructions[i].type = "Request"}

\* C5: the queue holds each producer's requests in the order they were
\* enqueued, and when the actor writes a request's text frame no earlier
\* request of the same producer is still waiting: A is written before B.
C5_PerProducerFifo ==
    /\ \A i, j \in QueuedRequests :
          (i < j /\ instructions[i].request.from = instructions[j].request.from)
             => instructions[i].request.n < instructions[j].request.n
    /\ wrote.kind = "Text" =>
          \A i \in QueuedRequests :
             instructions[i].request.from = wrote.body.from
                => instructions[i].request.n > wrote.body.n

\* C5: a request was written while a later request of the same producer
\* and a keepalive Ping were queued.
C5_Witness ==
    /\ wrote.kind = "Text"
    /\ \E i \in QueuedRequests : instructions[i].request.from = wrote.body.from
    /\ \E i \in DOMAIN instructions : instructions[i].type = "Ping"

\* C6: once every Ws handle is gone, nothing is queued, and registry and
\* pending table are empty, the loop eventually ends. This is the claim as
\* stated; the keepalive task keeps a sender, so is_done() never holds.
C6_StopsWhenNoProducers ==
    (/\ handles = {}
     /\ instructions = <<>>
     /\ DOMAIN subscriptions = {}
     /\ pending = <<>>) ~> (exit # "running")

\* C6, the code's behaviour: with every Ws gone the loop still runs and has
\* just serviced a Ping of the keepalive task.
C6_Witness ==
    /\ handles = {}
    /\ DOMAIN subscriptions = {}
    /\ pending = <<>>
    /\ exit = "running"
    /\ ~instructions_done
    /\ last.input.src = "queue"
    /\ last.input.kind = "Ping"

\* The last step handled a close frame without close info, or the end of
\* the socket's stream.
C7_Unexpected ==
    /\ last.input.src = "socket"
    /\ \/ last.input.kind = "StreamEnd"
       \/ last.input.kind = "Close" /\ last.input.data = FALSE

\* C7: a close frame without close info, or the end of the socket's stream,
\* makes tick() return UnexpectedClose; the loop ends at once, whatever the
\* registry and the queue hold, and handles no event afterwards.
C7_UnexpectedCloseEndsLoop ==
    /\ [](C7_Unexpected => (last.result = "UnexpectedClose" /\ exit = "unexpected_close"))
    /\ [][exit # "running" =>
            /\ exit' = exit
            /\ last' = NoStep
            /\ wrote' = NoFrame
            /\ UNCHANGED <<subscriptions, delivered, arrived>>]_vars

\* C7: a close frame without info ended the loop with registry and queue
\* both non-empty.
C7_Witness ==
    /\ C7_Unexpected
    /\ last.input.kind = "Close"
    /\ exit = "unexpected_close"
    /\ last.subs
    /\ last.queued

\* C8: ready() is true on every live Ws while the loop runs and false on
\* every one of them once it has ended, however it ended.
C8_ReadyIffRunning ==
    \A h \in handles : ready(h) <=> (exit = "running")

\* C8: the loop has ended and two live handles both report not ready.
C8_Witness ==
    /\ exit # "running"
    /\ Cardinality(handles) >= 2
    /\ \A h \in handles : ~ready(h)

\* C9: once the loop has ended no delivery channel has a sender left, so a
\* subscriber still listening can run its stream to the end, and no Response
\* is sent into any channel afterwards.
C9_StreamsEndAtExit ==
    /\ [](exit # "running" =>
            \A c \in Chans :
                /\ ~SenderAlive(c)
                /\ rx[c] = "open" => ENABLED StreamEnd(c))
    /\ [][exit # "running" => delivered' = delivered]_vars

\* C9: the loop ended with a registry entry, and a subscriber that was
\* delivered to is still listening.
C9_Witness ==
    /\ exit # "running"
    /\ last.subs
    /\ \E c \in Chans : rx[c] = "open" /\ delivered[c] # <<>>

PingsQueued(q) == Cardinality({i \in DOMAIN q : q[i].type = "Ping"})

\* C10: the keepalive task enqueues a Ping only when a full interval has
\* passed since its last one; once the queue is closed its next attempt
\* fails, enqueues nothing, and is its last.
C10_KeepaliveStops ==
    /\ [][PingsQueued(instructions') > PingsQueued(instructions) =>
            (sincePing >= PingInterval /\ rxOpen /\ sleepLeft' = PingInterval)]_vars
    /\ [](/\ pingFails <= 1
          /\ pingFails = 1 <=> tickerState = "panicked"
          /\ tickerState = "panicked" => ~rxOpen)
    /\ [][tickerState = "panicked" =>
            /\ tickerState' = "panicked"
            /\ pingFails' = pingFails
            /\ instructions' = instructions]_vars

\* C10: the loop has ended and the keepalive task stopped on its one
\* failed attempt.
C10_Witness ==
    /\ tickerState = "panicked"
    /\ pingFails = 1
    /\ exit # "running"

\* The step taken is one of the loop, servicing an Instruction of this type.
Serviced(type) ==
    /\ last'.input.src = "queue"
    /\ last'.input.kind = type

\* C11: the step that executes Unsubscribe(id) leaves the registry without
\* an entry for id, and an id that has no entry gets one only by the step
\* that executes a Subscribe for that id; so after Subscribe(id, sink) and a
\* later Unsubscribe(id) with no Subscribe(id) in between, id has no entry,
\* whatever else is processed in between.
C11_SubscribeThenUnsubscribe ==
    /\ [][Serviced("Unsubscribe") =>
            /\ exit' = "running"
            /\ last'.input.data.id \notin DOMAIN subscriptions']_vars
    /\ [][\A id \in UnsubIds :
            (id \notin DOMAIN subscriptions /\ id \in DOMAIN subscriptions')
                => (Serviced("Subscribe") /\ last'.input.data.id = id)]_vars

\* C11: Unsubscribe(1) has just been executed on a registry whose entry for
\* 1 had a Notification delivered through it; the registry is now empty.
C11_Witness ==
    /\ exit = "running"
    /\ last.input.src = "queue"
    /\ last.input.kind = "Unsubscribe"
    /\ last.input.data.id = ListenId
    /\ \E c \in Chans : delivered[c] # <<>>
    /\ DOMAIN subscriptions = {}

\* C12: the step that executes Subscribe(id, sink) returns Ok and leaves the
\* loop running, whether or not id had an entry; afterwards the registry maps
\* id to sink and every other id as before; and a channel receives a Response
\* only while it is the one registered under the routed id.
C12_ReplaceKeepsNewest ==
    /\ [][Serviced("Subscribe") =>
            /\ last'.result = "Ok"
            /\ exit' = "running"
            /\ DOMAIN subscriptions' = DOMAIN subscriptions \cup {last'.input.data.id}
            /\ subscriptions'[last'.input.data.id] = last'.input.data.sink
            /\ \A k \in DOMAIN subscriptions \ {last'.input.data.id} :
                  subscriptions'[k] = subscriptions[k]]_vars
    /\ [][\A c \in Chans : delivered'[c] # delivered[c] =>
            (RouteId \in DOMAIN subscriptions /\ subscriptions[RouteId] = c)]_vars

\* C12: the entry for id 1 was replaced by the second channel; the first
\* channel got a Response before that and the second one after it.
C12_Witness ==
    /\ exit = "running"
    /\ ListenId \in DOMAIN subscriptions
    /\ subscriptions[ListenId] = 2
    /\ delivered[1] # <<>>
    /\ delivered[2] # <<>>

\* C13: the step that executes Unsubscribe(id) while id has no entry leaves
\* the registry as it was, returns Ok and leaves the loop running; removing
\* an id twice from any reachable registry gives what removing it once gives.
C13_UnsubscribeAbsentIsNoOp ==
    /\ [][(Serviced("Unsubscribe") /\ last'.input.data.id \notin DOMAIN subscriptions) =>
            /\ subscriptions' = subscriptions
            /\ last'.result = "Ok"
            /\ exit' = "running"]_vars
    /\ [](\A id \in UnsubIds :
            /\ remove(remove(subscriptions, id), id) = remove(subscriptions, id)
            /\ id \notin DOMAIN subscriptions => remove(subscriptions, id) = subscriptions)

\* C13: Unsubscribe(2) has just been executed on a registry that holds an
\* entry for 1 only, and the entry is still there.
C13_Witness ==
    /\ exit = "running"
    /\ last.input.src = "queue"
    /\ last.input.kind = "Unsubscribe"
    /\ last.input.data.id = ListenId + 1
    /\ DOMAIN subscriptions = {ListenId}

\* C14: a read failure reported by the socket's inbound stream is fatal: the
\* step that takes it ends the loop. This is the claim as stated; the code
\* drops the error and the loop goes on.
C14_ReadFailureIsFatal ==
    [][(last'.input.src = "socket" /\ last'.input.kind = "ReadError") =>
         exit' # "running"]_vars

\* C14, the code's behaviour: the read failure was taken, tick() returned
\* Ok and the loop is still running.
C14_Witness ==
    /\ last.input.src = "socket"
    /\ last.input.kind = "ReadError"
    /\ last.result = read_error_result
    /\ exit = "running"

\* C15: a call of cast made once the queue's receiver is gone returns an
\* error, and a call made while it exists returns Ok and enqueues one item;
\* once the receiver is gone no step enqueues anything or writes a frame.
C15_SendAfterCloseFails ==
    /\ [][(ret' # "none" /\ ~rxOpen) =>
            /\ ret' = "ChannelError"
            /\ instructions' = instructions
            /\ wrote' = NoFrame]_vars
    /\ [][(ret' # "none" /\ rxOpen) =>
            /\ ret' = "Ok"
            /\ Len(instructions') = Len(instructions) + 1]_vars
    /\ [][~rxOpen => (instructions' = instructions /\ wrote' = NoFrame)]_vars

\* C15: cast has just returned an error to a caller whose handle outlived
\* the loop.
C15_Witness ==
    /\ ret = "ChannelError"
    /\ exit # "running"
    /\ handles # {}
    /\ instructions = <<>>

\* The last step serviced a Request whose socket write failed.
C16_WriteFailed ==
    /\ last.input.src = "queue"
    /\ last.input.kind = "Request"
    /\ wrote = NoFrame

\* C16: the step that services a Request whose write fails returns Ok,
\* leaves the loop running and the registry unchanged, and takes just that
\* Request off the queue; afterwards the loop can service the next
\* Instruction, if one is queued, and handle an inbound frame.
C16_WriteFailureProceeds ==
    /\ [][C16_WriteFailed' =>
            /\ last'.result = "Ok"
            /\ exit' = "running"
            /\ subscriptions' = subscriptions
            /\ instructions' = Tail(instructions)]_vars
    /\ [](C16_WriteFailed =>
            /\ instructions # <<>> => ENABLED Service
            /\ ENABLED HandlePong)

\* C16: a Request's write has just failed while the registry holds an entry
\* and another Instruction is queued.
C16_Witness ==
    /\ C16_WriteFailed
    /\ exit = "running"
    /\ DOMAIN subscriptions # {}
    /\ instructions # <<>>

\* The queued Subscribe instructions.
QueuedSubscribes == {j \in DOMAIN instructions : instructions[j].type = "Subscribe"}

\* C17: a listen call appends its "configs" Request and then its Subscribe,
\* whose sink is a channel that did not exist before and whose receiving end
\* the caller now holds; a queued Subscribe that is not at the head sits
\* right behind a "configs" Request, and its sink is in no other Subscribe
\* and not in the registry; when the actor writes a "configs" frame the
\* Subscribe of that call is still queued and its channel not yet registered.
C17_ConfigBeforeSubscribe ==
    /\ [][(nextChan' = nextChan + 1 /\ rxOpen) =>
            /\ rx[nextChan'] = "none"
            /\ rx'[nextChan'] = "open"
            /\ \E h \in handles :
                  instructions' = instructions \o
                      <<Request(Envelope(h, reqSeq + 1, "configs")),
                        Subscribe(ListenId, nextChan')>>]_vars
    /\ [](\A j \in QueuedSubscribes :
            /\ j > 1 => /\ instructions[j - 1].type = "Request"
                        /\ instructions[j - 1].request.method = "configs"
            /\ rx[instructions[j].sink] \in {"open", "dropped"}
            /\ \A k \in QueuedSubscribes : instructions[k].sink = instructions[j].sink => k = j
            /\ \A k \in DOMAIN subscriptions : subscriptions[k] # instructions[j].sink)
    /\ [][(wrote'.kind = "Text" /\ wrote'.body.method = "configs") =>
            /\ instructions' # <<>>
            /\ Head(instructions').type = "Subscribe"
            /\ \A k \in DOMAIN subscriptions' : subscriptions'[k] # Head(instructions').sink]_vars

\* C17: the "configs" frame of a listen call has just been written; the
\* call's Subscribe is next in the queue and the caller holds the stream.
C17_Witness ==
    /\ exit = "running"
    /\ wrote.kind = "Text"
    /\ wrote.body.method = "configs"
    /\ instructions # <<>>
    /\ Head(instructions).type = "Subscribe"
    /\ rx[Head(instructions).sink] = "open"
    /\ DOMAIN subscriptions # {}

\* C18: the step in which a subscriber drops its receiving end enqueues
\* nothing, writes nothing and leaves the registry as it was; while the loop
\* runs, the id of an entry whose receiving end is dropped leaves the
\* registry only by the step that executes Unsubscribe for that id; and a
\* delivery attempt to such an entry fails and removes it.
C18_DropIsSilent ==
    /\ [][\A c \in Chans : (rx[c] = "open" /\ rx'[c] = "dropped") =>
            /\ UNCHANGED <<instructions, subscriptions>>
            /\ wrote' = NoFrame]_vars
    /\ [][\A k \in DOMAIN subscriptions :
            (/\ Disconnected(subscriptions[k])
             /\ k \notin DOMAIN subscriptions'
             /\ exit' = "running")
                => (Serviced("Unsubscribe") /\ last'.input.data.id = k)]_vars
    /\ [][DeadDelivery =>
            /\ last'.result = undelivered_result
            /\ RouteId \notin DOMAIN subscriptions']_vars

\* C18: the receiving end of the registered channel was dropped, the loop
\* has handled a text frame since, and the entry is still registered.
C18_Witness ==
    /\ exit = "running"
    /\ RouteId \in DOMAIN subscriptions
    /\ Disconnected(subscriptions[RouteId])
    /\ last.input.src = "socket"
    /\ last.input.kind = "Text"

\* The step taken is one of the loop, on a socket frame of this kind.
Received(kind) ==
    /\ last'.input.src = "socket"
    /\ last'.input.kind = kind

\* C19: the step that handles an inbound ping writes one pong with the
\* ping's payload and returns Ok, or, the write failing, writes nothing and
\* ends the loop with the write error; a pong is written by no other step;
\* the step that handles an inbound pong writes nothing, leaves the registry
\* as it was and returns Ok.
C19_PingAnsweredPongIgnored ==
    /\ [][Received("Ping") =>
            \/ /\ last'.result = "Ok"
               /\ exit' = "running"
               /\ wrote'.kind = "Pong"
               /\ wrote'.body = last'.input.data
            \/ /\ last'.result = "TungsteniteError"
               /\ exit' = "panic"
               /\ wrote'.kind = "none"]_vars
    /\ [][wrote'.kind = "Pong" => Received("Ping")]_vars
    /\ [][Received("Pong") =>
            /\ wrote'.kind = "none"
            /\ subscriptions' = subscriptions
            /\ last'.result = "Ok"
            /\ exit' = "running"]_vars

\* C19: a ping with a non-empty payload has just been answered.
C19_Witness ==
    /\ exit = "running"
    /\ last.input.src = "socket"
    /\ last.input.kind = "Ping"
    /\ last.input.data = <<7>>
    /\ wrote.kind = "Pong"
    /\ wrote.body = <<7>>

\* C20: the step that handles a text frame which reads as a HelloMsg, or
\* which does not parse, leaves every channel and the registry as they were,
\* returns Ok and leaves the loop running.
C20_GreetingAndMalformedDiscarded ==
    [][(Received("Text") /\ last'.input.data.class \in {"HelloMsg", "Err"}) =>
         /\ UNCHANGED <<subscriptions, delivered>>
         /\ last'.result = "Ok"
         /\ exit' = "running"]_vars

\* C20: a HelloMsg has just been handled while a listening subscriber was
\* registered under the routed id.
C20_Witness ==
    /\ exit = "running"
    /\ last.input.src = "socket"
    /\ last.input.kind = "Text"
    /\ last.input.data.class = "HelloMsg"
    /\ RouteId \in DOMAIN subscriptions
    /\ rx[subscriptions[RouteId]] = "open"

\* C21: while the loop runs the keepalive task runs and holds a sender, so
\* the instruction stream is never found exhausted and is_done() is false;
\* the task ends only by a failed send, made after the loop has ended; the
\* loop never ends by "work complete", and the step that ends it is one in
\* which tick() returned an error.
C21_KeepaliveHoldsQueueOpen ==
    /\ [](exit = "running" =>
            /\ tickerState = "running"
            /\ QueueSenders >= 1
            /\ ~Exhausted
            /\ ~instructions_done
            /\ ~is_done(instructions_done, pending, subscriptions))
    /\ [](exit # "work_complete")
    /\ [][(tickerState = "running" /\ tickerState' # "running") =>
            /\ exit # "running"
            /\ ~rxOpen
            /\ pingFails' = pingFails + 1
            /\ instructions' = instructions]_vars
    /\ [][(exit = "running" /\ exit' # "running") => last'.result # "Ok"]_vars

\* C21: every Ws is gone, queue, registry and pending table are empty, the
\* loop has just taken a socket event, and it is still running.
C21_Witness ==
    /\ handles = {}
    /\ instructions = <<>>
    /\ DOMAIN subscriptions = {}
    /\ pending = <<>>
    /\ last.input.src = "socket"
    /\ last.result = "Ok"
    /\ exit = "running"
    /\ tickerState = "running"

\* C22: every queued Subscribe carries the id 1 and the registry has no key
\* other than 1, which is also the key routing looks up; the step that
\* executes Unsubscribe(id) for another id leaves the registry as it was;
\* and a channel receives a Response only while it is the entry for id 1.
C22_SingleFixedId ==
    /\ [](/\ DOMAIN subscriptions \subseteq {ListenId}
          /\ Cardinality(DOMAIN subscriptions) <= 1
          /\ RouteId = ListenId
          /\ \A j \in QueuedSubscribes : instructions[j].id = ListenId)
    /\ [][(Serviced("Unsubscribe") /\ last'.input.data.id # ListenId) =>
            subscriptions' = subscriptions]_vars
    /\ [][\A c \in Chans : delivered'[c] # delivered[c] =>
            (DOMAIN subscriptions = {RouteId} /\ subscriptions[RouteId] = c)]_vars

\* C22: two Ws clones exist, Unsubscribe(2) has just been executed, and the
\* registry still holds its one entry, whose subscriber is listening.
C22_Witness ==
    /\ exit = "running"
    /\ Cardinality(handles) = 2
    /\ last.input.src = "queue"
    /\ last.input.kind = "Unsubscribe"
    /\ last.input.data.id # ListenId
    /\ DOMAIN subscriptions = {ListenId}
    /\ rx[subscriptions[ListenId]] = "open"

\* C23: the step that executes a Subscribe over an entry holding another
\* channel leaves that channel without a sender and with the contents it
\* had; a channel that was created and has no sender never gets one again
\* and never receives a Response; and its subscriber, if still listening,
\* can run the stream to its end.
C23_ReplacedChannelCloses ==
    /\ [][(/\ Serviced("Subscribe")
           /\ last'.input.data.id \in DOMAIN subscriptions
           /\ subscriptions[last'.input.data.id] # last'.input.data.sink) =>
            \A c \in Chans : c = subscriptions[last'.input.data.id] =>
                /\ ~SenderAlive(c)'
                /\ delivered'[c] = delivered[c]]_vars
    /\ [][\A c \in Chans : (rx[c] # "none" /\ ~SenderAlive(c)) =>
            /\ ~SenderAlive(c)'
            /\ delivered'[c] = delivered[c]]_vars
    /\ [](\A c \in Chans : (rx[c] = "open" /\ ~SenderAlive(c)) => ENABLED StreamEnd(c))

\* C23: the second channel replaced the first under id 1; the first
\* subscriber got a Response before that and has since seen the end of its
\* stream, and the second one got the Response that came after.
C23_Witness ==
    /\ exit = "running"
    /\ ListenId \in DOMAIN subscriptions
    /\ subscriptions[ListenId] = 2
    /\ rx[1] = "ended"
    /\ rx[2] = "open"
    /\ Len(delivered[1]) = 1
    /\ Len(delivered[2]) = 1

\* C24: the step that handles a raw-absent Notification while the routed id
\* has no entry returns Ok, leaves the loop running and changes neither
\* registry, pending table, queue nor any channel; and whenever a channel
\* receives a Response it is the one frame that arrived in that very step,
\* so a discarded Notification is never delivered later.
C24_UnroutedIsDiscarded ==
    /\ [][(TextStep("None") /\ RouteId \notin DOMAIN subscriptions) =>
            /\ last'.result = "Ok"
            /\ exit' = "running"
            /\ UNCHANGED <<subscriptions, pending, instructions, delivered>>]_vars
    /\ [][\A c \in Chans : delivered'[c] # delivered[c] =>
            /\ arrived' = arrived + 1
            /\ delivered'[c] = Append(delivered[c], [seq |-> arrived', raw |-> "None"])]_vars
    /\ [](\A c \in Chans : Len(delivered[c]) <= arrived)

\* C24: a raw-absent Notification has just been handled between the write
\* of a listen call's "configs" frame and the execution of its Subscribe:
\* the registry is empty and the Subscribe is at the head of the queue.
C24_Witness ==
    /\ exit = "running"
    /\ last.input.src = "socket"
    /\ last.input.kind = "Text"
    /\ last.input.data.class = "Response"
    /\ last.input.data.raw = "None"
    /\ DOMAIN subscriptions = {}
    /\ instructions # <<>>
    /\ Head(instructions).type = "Subscribe"
    /\ rx[Head(instructions).sink] = "open"
    /\ delivered[Head(instructions).sink] = <<>>

====
